---- MODULE Spec2Model ----
(***************************************************************************)
(* Model of two dashboard components:                                      *)
(*   - EditTableForm: lazy one-time hydration of the form from the table   *)
(*     query, the merged error slot and its Clear button, and the          *)
(*     sequential handleSubmit workflow.                                   *)
(*   - SystemEnvironmentVariableSettings: the two show/hide flags of the   *)
(*     admin and webhook secrets and the JWT secret dialog.                *)
(* JavaScript array indices are kept 0-based, as in the source.            *)
(***************************************************************************)
EXTENDS Integers, Sequences, FiniteSets, TLC

\* ---------------------------------------------------------------- bounds
MaxCols == 2
MaxLoads == 2
MaxEdits == 1
MaxSubmits == 1
MaxToggles == 4

\* ---------------------------------------------------------------- values
\* JavaScript null / undefined / number, tagged so that they can be compared.
Null == [tag |-> "null"]
Undefined == [tag |-> "undefined"]
Num(i) == [tag |-> "num", val |-> i]

\* Absent string (JavaScript undefined where a string is expected).
NoName == "<undefined>"
\* No error object.
NoError == "<none>"

\* Props of the mounted EditTableForm.
schema == "public"
originalTableName == "books"
workspaceSlug == "ws"
appSlug == "app"
dataSourceSlug == "default"

NamePool == <<"id", "title", "author", "price">>
TableNames == {originalTableName, "library"}
EditedColumnName == "slug"

FK1 == [name |-> "fk_author", columnName |-> "id",
        referencedSchema |-> "public", referencedTable |-> "authors",
        referencedColumn |-> "id"]
FkChoices == {<< >>, <<FK1>>}

\* Rows of the table query: the first n names of NamePool, with any
\* combination of the is_primary and is_identity flags.
RawColumn(n, primary, identity) ==
    [column_name |-> n, data_type |-> "text", is_nullable |-> "NO",
     is_unique |-> FALSE, is_primary |-> primary,
     is_identity |-> IF identity THEN "YES" ELSE "NO", column_default |-> Null]
RawColumnLists ==
    UNION {[1..n -> BOOLEAN \X BOOLEAN] : n \in 0..MaxCols}
\* The query results tried together with edits and submissions: no column,
\* one column that is primary and identity, and two columns with the primary
\* key in second place and a foreign key.
SampleLoads ==
    {<< << >>, << >> >>,
     << << <<TRUE, TRUE>> >>, << >> >>,
     << << <<FALSE, FALSE>>, <<TRUE, FALSE>> >>, <<FK1>> >>}
RawColumns(flags) ==
    [i \in 1..Len(flags) |-> RawColumn(NamePool[i], flags[i][1], flags[i][2])]

normalizeDatabaseColumn(column) ==
    [id |-> column.column_name,
     type |-> column.data_type,
     defaultValue |-> column.column_default,
     isNullable |-> column.is_nullable # "NO",
     isUnique |-> column.is_unique,
     isPrimary |-> column.is_primary,
     isIdentity |-> column.is_identity = "YES"]

\* Array.prototype.findIndex over the results of the callback, one per
\* element: 0-based position of the first match, else -1.
RECURSIVE findIndexFrom(_, _)
findIndexFrom(matches, i) ==
    IF i > Len(matches) THEN -1
    ELSE IF matches[i] THEN i - 1
    ELSE findIndexFrom(matches, i + 1)
findIndex(matches) == findIndexFrom(matches, 1)

\* seq[index]?.name for a tagged index: the name, or undefined.
NameAt(seq, index) ==
    IF index.tag = "num" /\ index.val >= 0 /\ index.val < Len(seq)
    THEN seq[index.val + 1].name
    ELSE NoName

VARIABLES
    columnsStatus,      \* status of useTableQuery
    data,               \* data of useTableQuery (kept across a failed re-fetch)
    columnsError,       \* error of useTableQuery
    updateError,        \* error of useUpdateTableMutation
    foreignKeyError,    \* error of useTrackForeignKeyRelationsMutation
    lastEvent,          \* the handler that ran last, with the resets it called
    formInitialized,    \* the hydration latch
    form,               \* values held by react-hook-form
    dirty,              \* the user edited the form since the last form.reset
    hasOnSubmit,        \* the onSubmit prop was supplied
    pc,                 \* where handleSubmit is suspended
    values,             \* argument of the running handleSubmit
    updatedTable,       \* updatedTable of the running handleSubmit
    calls,              \* collaborator calls made by the running handleSubmit
    outcome,            \* how the promise of handleSubmit settled
    nLoads, nEdits, nSubmits,
    showAdminSecret, showWebhookSecret,
    secretsStatus,      \* state of useGetAppInjectedVariablesQuery
    secrets,            \* currentApplication and the data of the query
    requests,           \* network requests issued by the settings panel
    dialog,             \* content of the alert dialog
    adminToggles, webhookToggles

formVars == <<columnsStatus, data, columnsError, updateError, foreignKeyError,
              lastEvent, formInitialized, form, dirty, hasOnSubmit, pc,
              values, updatedTable, calls, outcome, nLoads, nEdits, nSubmits>>
secretVars == <<showAdminSecret, showWebhookSecret, secretsStatus, secrets,
                requests, dialog, adminToggles, webhookToggles>>
vars == <<formVars, secretVars>>

\* ------------------------------------------------------- derived values
NoData == [columns |-> << >>, foreignKeyRelations |-> << >>]

\* const dataGridColumns = (columns || []).map(normalizeDatabaseColumn)
dataGridColumnsOf(d) ==
    [i \in 1..Len(d.columns) |-> normalizeDatabaseColumn(d.columns[i])]
dataGridColumns == dataGridColumnsOf(data)
foreignKeyRelations == data.foreignKeyRelations

\* const error = columnsError || updateError || foreignKeyError
MergedError(c, u, f) ==
    IF c # NoError THEN c ELSE IF u # NoError THEN u ELSE f
error == MergedError(columnsError, updateError, foreignKeyError)

\* The FormProvider branch of the render: neither early return is taken.
FormRendered == columnsStatus # "loading" /\ columnsStatus # "error"

defaultValues ==
    [name |-> originalTableName, columns |-> << >>, primaryKeyIndex |-> Null,
     identityColumnIndex |-> Null, foreignKeyRelations |-> << >>]

\* (column) => column.isPrimary and (column) => column.isIdentity, mapped.
isPrimaryOf(cols) == [i \in 1..Len(cols) |-> cols[i].isPrimary]
isIdentityOf(cols) == [i \in 1..Len(cols) |-> cols[i].isIdentity]

\* Variant: the results of findIndex are stored as they are, -1 included.
HydratedValues_RawFindIndex(cols, fks) ==
    [name |-> originalTableName,
     columns |-> [i \in 1..Len(cols) |->
                     [id |-> cols[i].id, name |-> cols[i].id,
                      type |-> cols[i].type,
                      defaultValue |-> cols[i].defaultValue,
                      isNullable |-> cols[i].isNullable,
                      isUnique |-> cols[i].isUnique]],
     primaryKeyIndex |-> Num(findIndex(isPrimaryOf(cols))),
     identityColumnIndex |-> Num(findIndex(isIdentityOf(cols))),
     foreignKeyRelations |-> fks]

\* The argument of form.reset in the hydration effect.
HydratedValues(cols, fks) ==
    LET primaryColumnIndex == findIndex(isPrimaryOf(cols))
        identityColumnIndex == findIndex(isIdentityOf(cols))
    IN [name |-> originalTableName,
        columns |-> [i \in 1..Len(cols) |->
                        [id |-> cols[i].id, name |-> cols[i].id,
                         type |-> cols[i].type,
                         defaultValue |-> cols[i].defaultValue,
                         isNullable |-> cols[i].isNullable,
                         isUnique |-> cols[i].isUnique]],
        primaryKeyIndex |-> IF primaryColumnIndex > -1
                            THEN Num(primaryColumnIndex) ELSE Null,
        identityColumnIndex |-> IF identityColumnIndex > -1
                                THEN Num(identityColumnIndex) ELSE Null,
        foreignKeyRelations |-> fks]

\* Variant: the effect does not consult the latch.
ShouldHydrate_NoLatch(status, cols, initialized) ==
    status = "success" /\ Len(cols) > 0

\* Variant: the effect does not require a column.
ShouldHydrate_NoLengthGate(status, cols, initialized) ==
    status = "success" /\ ~initialized

\* The condition of the hydration effect.
ShouldHydrate(status, cols, initialized) ==
    status = "success" /\ Len(cols) > 0 /\ ~initialized

\* ------------------------------------------------------------- Init
Init ==
    /\ columnsStatus = "loading"
    /\ data = NoData
    /\ columnsError = NoError
    /\ updateError = NoError
    /\ foreignKeyError = NoError
    /\ lastEvent = [op |-> "mount"]
    /\ formInitialized = FALSE
    /\ form = defaultValues
    /\ dirty = FALSE
    /\ hasOnSubmit \in BOOLEAN
    /\ pc = "idle"
    /\ values = Null
    /\ updatedTable = Null
    /\ calls = << >>
    /\ outcome = "none"
    /\ nLoads = 0 /\ nEdits = 0 /\ nSubmits = 0
    /\ showAdminSecret = FALSE
    /\ showWebhookSecret = FALSE
    /\ secretsStatus = "loading"
    /\ secrets = Null
    /\ requests = 1
    /\ dialog = Null
    /\ adminToggles = 0 /\ webhookToggles = 0

\* ------------------------------------------- EditTableForm: table query
\* What useTableQuery reports once a fetch has settled: a successful query
\* carries no error, a failed one carries one.
QuerySucceeded == [status |-> "success", error |-> NoError]
QueryFailed == [status |-> "error", error |-> "columns error"]

\* The hydration effect, run after the render that follows a query result.
HydrationEffect ==
    IF ShouldHydrate(columnsStatus', dataGridColumnsOf(data'), formInitialized)
    THEN /\ form' = HydratedValues(dataGridColumnsOf(data'),
                                   data'.foreignKeyRelations)
         /\ formInitialized' = TRUE
         /\ dirty' = FALSE
    ELSE UNCHANGED <<form, formInitialized, dirty>>

\* useTableQuery settles with data (first fetch or re-fetch).
LoadSuccess(flags, fks) ==
    /\ nLoads < MaxLoads
    /\ nLoads' = nLoads + 1
    /\ columnsStatus' = QuerySucceeded.status
    /\ columnsError' = QuerySucceeded.error
    /\ data' = [columns |-> RawColumns(flags), foreignKeyRelations |-> fks]
    /\ HydrationEffect
    /\ UNCHANGED <<updateError, foreignKeyError, hasOnSubmit, pc,
                   values, updatedTable, calls, outcome, nEdits, nSubmits>>
    /\ lastEvent' = [op |-> "LoadSuccess"]
    /\ UNCHANGED secretVars

\* useTableQuery settles with an error; data of an earlier fetch is kept.
LoadError ==
    /\ nLoads < MaxLoads
    /\ nLoads' = nLoads + 1
    /\ columnsStatus' = QueryFailed.status
    /\ columnsError' = QueryFailed.error
    /\ data' = data
    /\ HydrationEffect
    /\ UNCHANGED <<updateError, foreignKeyError, hasOnSubmit, pc,
                   values, updatedTable, calls, outcome, nEdits, nSubmits>>
    /\ lastEvent' = [op |-> "LoadError"]
    /\ UNCHANGED secretVars

\* ---------------------------------------------- EditTableForm: user edits
Edit(edited) ==
    /\ FormRendered
    /\ nEdits < MaxEdits
    /\ nEdits' = nEdits + 1
    /\ edited # form
    /\ form' = edited
    /\ dirty' = TRUE
    /\ UNCHANGED <<columnsStatus, data, columnsError, updateError,
                   foreignKeyError, formInitialized, hasOnSubmit,
                   pc, values, updatedTable, calls, outcome, nLoads, nSubmits>>
    /\ lastEvent' = [op |-> "Edit"]
    /\ UNCHANGED secretVars

IndexChoices == {Null} \cup {Num(i) : i \in 0..(Len(form.columns) - 1)}

SetName(n) == Edit([form EXCEPT !.name = n])
SetPrimaryKeyIndex(v) == Edit([form EXCEPT !.primaryKeyIndex = v])
SetIdentityColumnIndex(v) == Edit([form EXCEPT !.identityColumnIndex = v])
SetForeignKeyRelations(fks) == Edit([form EXCEPT !.foreignKeyRelations = fks])
RenameColumn(i) == Edit([form EXCEPT !.columns[i].name = EditedColumnName])

\* -------------------------------------------- EditTableForm: error slot
\* Variant: Clear forgets resetUpdateError.
resetError_ForeignKeyOnly ==
    /\ FormRendered
    /\ error # NoError
    /\ foreignKeyError' = NoError
    /\ lastEvent' = [op |-> "resetError", resets |-> {"foreignKey"}]
    /\ UNCHANGED <<columnsStatus, data, columnsError, updateError,
                   formInitialized, form, dirty, hasOnSubmit, pc, values,
                   updatedTable, calls, outcome, nLoads, nEdits, nSubmits>>
    /\ UNCHANGED secretVars

\* onClick of the Clear button, rendered with the form while error is set.
resetError ==
    /\ FormRendered
    /\ error # NoError
    /\ foreignKeyError' = NoError
    /\ updateError' = NoError
    /\ UNCHANGED <<columnsStatus, data, columnsError, formInitialized, form,
                   dirty, hasOnSubmit, pc, values, updatedTable, calls, outcome,
                   nLoads, nEdits, nSubmits>>
    /\ lastEvent' = [op |-> "resetError",
                     resets |-> {"foreignKey", "update"}]
    /\ UNCHANGED secretVars

\* ------------------------------------------- EditTableForm: handleSubmit
\* Variant: the keys are resolved to the columns' immutable ids.
deriveUpdatedTable_ColumnId(v) ==
    [primaryKey |->
        IF v.primaryKeyIndex.tag = "num" /\ v.primaryKeyIndex.val < Len(v.columns)
        THEN v.columns[v.primaryKeyIndex.val + 1].id ELSE NoName,
     identityColumn |->
        IF v.identityColumnIndex.tag = "num"
           /\ v.identityColumnIndex.val < Len(v.columns)
        THEN v.columns[v.identityColumnIndex.val + 1].id ELSE NoName] @@ v

\* const updatedTable = { ...values, primaryKey, identityColumn }
deriveUpdatedTable(v) ==
    [primaryKey |-> NameAt(v.columns, v.primaryKeyIndex),
     identityColumn |->
        IF v.identityColumnIndex # Null /\ v.identityColumnIndex # Undefined
        THEN NameAt(v.columns, v.identityColumnIndex)
        ELSE NoName] @@ v

Call(op, arg) == [op |-> op, arg |-> arg, result |-> "pending"]
Settle(log, result) == [log EXCEPT ![Len(log)].result = result]

updateTableArgs(table) ==
    [originalTable |-> originalTableName,
     originalColumns |-> dataGridColumns,
     originalForeignKeyRelations |-> foreignKeyRelations,
     updatedTable |-> table]

trackArgs(table) ==
    [foreignKeyRelations |-> table.foreignKeyRelations,
     schema |-> schema,
     table |-> table.name]

pushPath(table) ==
    <<workspaceSlug, appSlug, "database", "browser", dataSourceSlug, schema,
      table.name>>

ToastMessage == "The table has been updated successfully."

\* The rest of handleSubmit from a given statement up to its next await (or
\* its end), as the fields of the suspended call.
Toast(log) ==
    [pc |-> "done",
     calls |-> Settle(Append(log, Call("triggerToast", ToastMessage)), "ok"),
     outcome |-> "resolved"]

\* Variant: navigation does not compare the names.
NavigateStep_Always(log, table) ==
    [pc |-> "push", calls |-> Append(log, Call("push", pushPath(table))),
     outcome |-> "pending"]

NavigateStep(log, table) ==
    IF originalTableName # table.name
    THEN [pc |-> "push", calls |-> Append(log, Call("push", pushPath(table))),
          outcome |-> "pending"]
    ELSE Toast(log)

CallbackStep(log, table, supplied) ==
    IF supplied
    THEN [pc |-> "onSubmit", calls |-> Append(log, Call("onSubmit", Null)),
          outcome |-> "pending"]
    ELSE NavigateStep(log, table)

\* Variant: tracking does not look at the number of relations.
TrackStep_Always(log, table, supplied) ==
    [pc |-> "trackForeignKeyRelations",
     calls |-> Append(log, Call("trackForeignKeyRelations", trackArgs(table))),
     outcome |-> "pending"]

TrackStep(log, table, supplied) ==
    IF Len(table.foreignKeyRelations) > 0
    THEN [pc |-> "trackForeignKeyRelations",
          calls |-> Append(log, Call("trackForeignKeyRelations",
                                     trackArgs(table))),
          outcome |-> "pending"]
    ELSE CallbackStep(log, table, supplied)

\* Variant: the notification is emitted after the catch block as well.
Caught_StillToasts(log) ==
    [pc |-> "done",
     calls |-> Settle(Append(Settle(log, "failed"),
                             Call("triggerToast", ToastMessage)), "ok"),
     outcome |-> "resolved"]

\* catch { } : the rejection is swallowed and handleSubmit resolves.
Caught(log) ==
    [pc |-> "done", calls |-> Settle(log, "failed"), outcome |-> "resolved"]

Resume(next) ==
    /\ pc' = next.pc
    /\ calls' = next.calls
    /\ outcome' = next.outcome

\* BaseTableForm calls handleSubmit with the validated form values.
Submit ==
    /\ FormRendered
    /\ pc \in {"idle", "done"}
    /\ nSubmits < MaxSubmits
    /\ nSubmits' = nSubmits + 1
    /\ values' = form
    /\ updatedTable' = deriveUpdatedTable(values')
    /\ pc' = "updateTable"
    /\ calls' = <<Call("updateTable", updateTableArgs(updatedTable'))>>
    /\ outcome' = "pending"
    /\ UNCHANGED <<columnsStatus, data, columnsError, updateError,
                   foreignKeyError, formInitialized, form, dirty,
                   hasOnSubmit, nLoads, nEdits>>
    /\ lastEvent' = [op |-> "Submit"]
    /\ UNCHANGED secretVars

UpdateTableResolved ==
    /\ pc = "updateTable"
    /\ Resume(TrackStep(Settle(calls, "ok"), updatedTable, hasOnSubmit))
    /\ UNCHANGED <<columnsStatus, data, columnsError, updateError,
                   foreignKeyError, formInitialized, form, dirty,
                   hasOnSubmit, values, updatedTable, nLoads, nEdits, nSubmits>>
    /\ lastEvent' = [op |-> "UpdateTableResolved"]
    /\ UNCHANGED secretVars

\* Variant: the rejection of updateTable is not awaited.
UpdateTableRejected_Continues ==
    /\ pc = "updateTable"
    /\ updateError' = "update error"
    /\ Resume(TrackStep(Settle(calls, "failed"), updatedTable, hasOnSubmit))
    /\ lastEvent' = [op |-> "UpdateTableRejected"]
    /\ UNCHANGED <<columnsStatus, data, columnsError, foreignKeyError,
                   formInitialized, form, dirty, hasOnSubmit,
                   values, updatedTable, nLoads, nEdits, nSubmits>>
    /\ UNCHANGED secretVars

UpdateTableRejected ==
    /\ pc = "updateTable"
    /\ updateError' = "update error"
    /\ Resume(Caught(calls))
    /\ UNCHANGED <<columnsStatus, data, columnsError, foreignKeyError,
                   formInitialized, form, dirty, hasOnSubmit,
                   values, updatedTable, nLoads, nEdits, nSubmits>>
    /\ lastEvent' = [op |-> "UpdateTableRejected"]
    /\ UNCHANGED secretVars

TrackResolved ==
    /\ pc = "trackForeignKeyRelations"
    /\ Resume(CallbackStep(Settle(calls, "ok"), updatedTable, hasOnSubmit))
    /\ UNCHANGED <<columnsStatus, data, columnsError, updateError,
                   foreignKeyError, formInitialized, form, dirty,
                   hasOnSubmit, values, updatedTable, nLoads, nEdits, nSubmits>>
    /\ lastEvent' = [op |-> "TrackResolved"]
    /\ UNCHANGED secretVars

TrackRejected ==
    /\ pc = "trackForeignKeyRelations"
    /\ foreignKeyError' = "foreign key error"
    /\ Resume(Caught(calls))
    /\ UNCHANGED <<columnsStatus, data, columnsError, updateError,
                   formInitialized, form, dirty, hasOnSubmit,
                   values, updatedTable, nLoads, nEdits, nSubmits>>
    /\ lastEvent' = [op |-> "TrackRejected"]
    /\ UNCHANGED secretVars

OnSubmitResolved ==
    /\ pc = "onSubmit"
    /\ Resume(NavigateStep(Settle(calls, "ok"), updatedTable))
    /\ UNCHANGED <<columnsStatus, data, columnsError, updateError,
                   foreignKeyError, formInitialized, form, dirty,
                   hasOnSubmit, values, updatedTable, nLoads, nEdits, nSubmits>>
    /\ lastEvent' = [op |-> "OnSubmitResolved"]
    /\ UNCHANGED secretVars

OnSubmitRejected ==
    /\ pc = "onSubmit"
    /\ Resume(Caught(calls))
    /\ UNCHANGED <<columnsStatus, data, columnsError, updateError,
                   foreignKeyError, formInitialized, form, dirty,
                   hasOnSubmit, values, updatedTable, nLoads, nEdits, nSubmits>>
    /\ lastEvent' = [op |-> "OnSubmitRejected"]
    /\ UNCHANGED secretVars

PushResolved ==
    /\ pc = "push"
    /\ Resume(Toast(Settle(calls, "ok")))
    /\ UNCHANGED <<columnsStatus, data, columnsError, updateError,
                   foreignKeyError, formInitialized, form, dirty,
                   hasOnSubmit, values, updatedTable, nLoads, nEdits, nSubmits>>
    /\ lastEvent' = [op |-> "PushResolved"]
    /\ UNCHANGED secretVars

PushRejected ==
    /\ pc = "push"
    /\ Resume(Caught(calls))
    /\ UNCHANGED <<columnsStatus, data, columnsError, updateError,
                   foreignKeyError, formInitialized, form, dirty,
                   hasOnSubmit, values, updatedTable, nLoads, nEdits, nSubmits>>
    /\ lastEvent' = [op |-> "PushRejected"]
    /\ UNCHANGED secretVars

\* ------------------------------- SystemEnvironmentVariableSettings
Mask == "*******************************"
SecretChoices == {"secret-a", "secret-b"}

\* Text shown next to NHOST_ADMIN_SECRET / NHOST_WEBHOOK_SECRET.
SecretText(show, value) == IF show THEN value ELSE Mask
adminSecretText ==
    SecretText(showAdminSecret, secrets.currentApplication.hasuraGraphqlAdminSecret)
webhookSecretText ==
    SecretText(showWebhookSecret, secrets.data.app.webhookSecret)

\* The list is rendered only past both early exits (loading, thrown error).
SettingsRendered == secretsStatus = "loaded"

SecretsLoaded(admin, webhook, jwt) ==
    /\ secretsStatus = "loading"
    /\ secretsStatus' = "loaded"
    /\ secrets' =
         [currentApplication |-> [hasuraGraphqlAdminSecret |-> admin],
          data |-> [app |-> [webhookSecret |-> webhook,
                             hasuraGraphqlJwtSecret |-> jwt]]]
    /\ UNCHANGED <<showAdminSecret, showWebhookSecret, requests, dialog,
                   adminToggles, webhookToggles>>
    /\ UNCHANGED formVars

\* The query failed: the component throws the error while rendering.
SecretsFailed ==
    /\ secretsStatus = "loading"
    /\ secretsStatus' = "thrown"
    /\ UNCHANGED <<showAdminSecret, showWebhookSecret, secrets, requests,
                   dialog, adminToggles, webhookToggles>>
    /\ UNCHANGED formVars

\* Variant: the button only ever reveals.
ToggleAdminSecret_Reveals ==
    /\ SettingsRendered
    /\ adminToggles < MaxToggles
    /\ adminToggles' = adminToggles + 1
    /\ showAdminSecret' = TRUE
    /\ UNCHANGED <<showWebhookSecret, secretsStatus, secrets, requests,
                   dialog, webhookToggles>>
    /\ UNCHANGED formVars

\* onClick={() => setShowAdminSecret((show) => !show)}
ToggleAdminSecret ==
    /\ SettingsRendered
    /\ adminToggles < MaxToggles
    /\ adminToggles' = adminToggles + 1
    /\ showAdminSecret' = ~showAdminSecret
    /\ UNCHANGED <<showWebhookSecret, secretsStatus, secrets, requests,
                   dialog, webhookToggles>>
    /\ UNCHANGED formVars

\* onClick={() => setShowWebhookSecret((show) => !show)}
ToggleWebhookSecret ==
    /\ SettingsRendered
    /\ webhookToggles < MaxToggles
    /\ webhookToggles' = webhookToggles + 1
    /\ showWebhookSecret' = ~showWebhookSecret
    /\ UNCHANGED <<showAdminSecret, secretsStatus, secrets, requests,
                   dialog, adminToggles>>
    /\ UNCHANGED formVars

\* openAlertDialog with the already fetched JWT secret.
showJwtSecret ==
    /\ SettingsRendered
    /\ dialog = Null
    /\ dialog' = [title |-> "Auth JWT Secret",
                  payload |-> secrets.data.app.hasuraGraphqlJwtSecret]
    /\ UNCHANGED <<showAdminSecret, showWebhookSecret, secretsStatus, secrets,
                   requests, adminToggles, webhookToggles>>
    /\ UNCHANGED formVars

\* The secondary button of the dialog ("Close").
CloseDialog ==
    /\ dialog # Null
    /\ dialog' = Null
    /\ UNCHANGED <<showAdminSecret, showWebhookSecret, secretsStatus, secrets,
                   requests, adminToggles, webhookToggles>>
    /\ UNCHANGED formVars

\* ------------------------------------------------------ specifications
Next ==
    \/ \E load \in SampleLoads : LoadSuccess(load[1], load[2])
    \/ LoadError
    \/ \E n \in TableNames : SetName(n)
    \/ \E v \in IndexChoices : SetPrimaryKeyIndex(v)
    \/ \E v \in IndexChoices \cup {Undefined} : SetIdentityColumnIndex(v)
    \/ \E fks \in FkChoices : SetForeignKeyRelations(fks)
    \/ \E i \in 1..Len(form.columns) : RenameColumn(i)
    \/ resetError
    \/ Submit
    \/ UpdateTableResolved
    \/ UpdateTableRejected
    \/ TrackResolved
    \/ TrackRejected
    \/ OnSubmitResolved
    \/ OnSubmitRejected
    \/ PushResolved
    \/ PushRejected

Spec == Init /\ [][Next]_vars

\* The table query alone, over every column list.
HydrationNext ==
    \/ \E flags \in RawColumnLists, fks \in FkChoices : LoadSuccess(flags, fks)
    \/ LoadError

HydrationSpec == Init /\ [][HydrationNext]_vars

SecretNext ==
    \/ \E a \in SecretChoices, w \in SecretChoices, j \in SecretChoices :
          SecretsLoaded(a, w, j)
    \/ SecretsFailed
    \/ ToggleAdminSecret
    \/ ToggleWebhookSecret
    \/ showJwtSecret
    \/ CloseDialog

SecretSpec == Init /\ [][SecretNext]_vars

\* -------------------------------------------------------------- claims
\* A step in which a result of the table query arrives.
LoadStep == nLoads' # nLoads
SuccessfulLoadStep == LoadStep /\ columnsStatus' = "success"

\* Positions of the calls of one collaborator in the running handleSubmit.
CallsOf(op) == {i \in DOMAIN calls : calls[i].op = op}
Submitted == pc # "idle"

\* 0-based position of the first element of a set of positions, else null.
FirstPosition(S) ==
    IF S = {} THEN Null ELSE Num(CHOOSE i \in S : \A j \in S : i <= j)
PrimaryPositions(d) ==
    {i \in 0..(Len(d.columns) - 1) : dataGridColumnsOf(d)[i + 1].isPrimary}
IdentityPositions(d) ==
    {i \in 0..(Len(d.columns) - 1) : dataGridColumnsOf(d)[i + 1].isIdentity}

\* C1: once the formInitialized latch is set it stays set, and no later
\* result of the table query (same or different columns, success or error)
\* changes the form values, so edits made after hydration survive re-fetches.
C1_HydratedAtMostOnce ==
    [][formInitialized =>
         (formInitialized' /\ (LoadStep => form' = form /\ dirty' = dirty))]_vars

\* A re-fetch with other columns arrived after the user edited the hydrated
\* form, and the edited values are still in the form.
C1_Witness ==
    /\ formInitialized
    /\ dirty
    /\ lastEvent.op = "LoadSuccess"
    /\ Len(dataGridColumns) > 0
    /\ Len(form.columns) # Len(dataGridColumns)
    /\ form # HydratedValues(dataGridColumns, foreignKeyRelations)

\* C2: when updateTable fails, the running handleSubmit calls neither
\* trackForeignKeyRelations nor onSubmit.
C2_UpdateFailureStopsSubmit ==
    (Submitted /\ calls[1].op = "updateTable" /\ calls[1].result = "failed")
        => (CallsOf("trackForeignKeyRelations") = {} /\ CallsOf("onSubmit") = {})

\* updateTable failed in a submission that had relations to track and a
\* completion callback to call.
C2_Witness ==
    /\ pc = "done"
    /\ calls[1].result = "failed"
    /\ Len(values.foreignKeyRelations) > 0
    /\ hasOnSubmit

\* C3: trackForeignKeyRelations is called if and only if updateTable succeeded
\* and the submitted foreignKeyRelations are not empty; it is called at most
\* once, with the submitted relations, the schema and the submitted name.
C3_TrackingIffRelations ==
    /\ Cardinality(CallsOf("trackForeignKeyRelations")) <= 1
    /\ (CallsOf("trackForeignKeyRelations") # {})
          <=> (Submitted /\ calls[1].result = "ok"
                         /\ Len(values.foreignKeyRelations) > 0)
    /\ \A i \in CallsOf("trackForeignKeyRelations") :
          calls[i].arg = [foreignKeyRelations |-> values.foreignKeyRelations,
                          schema |-> schema,
                          table |-> values.name]

\* Tracking ran in a submission that renamed the table and ran to its end.
C3_Witness ==
    /\ pc = "done"
    /\ CallsOf("trackForeignKeyRelations") # {}
    /\ values.name # originalTableName
    /\ calls[Len(calls)].op = "triggerToast"

\* updateTable, the tracking (if any) and onSubmit (if any) have succeeded.
EarlierStepsSucceeded ==
    /\ Submitted
    /\ \A i \in DOMAIN calls :
          calls[i].op \in {"updateTable", "trackForeignKeyRelations", "onSubmit"}
              => calls[i].result = "ok"

\* C4: once updateTable, the tracking (if any) and onSubmit (if any) have
\* succeeded, router.push has been called if and only if the submitted name
\* differs from the original name, and its path ends with the submitted name;
\* a submission that keeps the name never calls it.
C4_NavigationIffRenamed ==
    /\ EarlierStepsSucceeded
          => ((CallsOf("push") # {}) <=> (values.name # originalTableName))
    /\ \A i \in CallsOf("push") :
          /\ values.name # originalTableName
          /\ calls[i].arg = <<workspaceSlug, appSlug, "database", "browser",
                              dataSourceSlug, schema, values.name>>

\* A renamed table was submitted and the navigation to its new path is done.
C4_Witness ==
    /\ pc = "done"
    /\ \E i \in CallsOf("push") : calls[i].result = "ok"
    /\ values.name = "library"

\* C5: at hydration primaryKeyIndex is the position of the first column
\* flagged primary and identityColumnIndex that of the first column flagged
\* identity in the normalized column list; without such a column it is null.
C5_HydratedIndices ==
    [][(~formInitialized /\ formInitialized') =>
         /\ form'.primaryKeyIndex = FirstPosition(PrimaryPositions(data'))
         /\ form'.identityColumnIndex = FirstPosition(IdentityPositions(data'))
         /\ (PrimaryPositions(data') = {} => form'.primaryKeyIndex = Null)
         /\ (IdentityPositions(data') = {} => form'.identityColumnIndex = Null)
      ]_vars

\* Hydrated from a list with two primary columns and no identity column.
C5_Witness ==
    /\ formInitialized
    /\ nLoads = 1
    /\ Cardinality(PrimaryPositions(data)) >= 2
    /\ IdentityPositions(data) = {}
    /\ form.primaryKeyIndex = Num(0)
    /\ form.identityColumnIndex = Null

\* C6 (as amended): Clear resets the errors of the update mutation and of the
\* tracking mutation, and only those; the error of the table query is null
\* wherever Clear is rendered, so the merged error is empty right after Clear.
C6_ClearEmptiesErrorSlot ==
    lastEvent.op = "resetError" =>
        /\ lastEvent.resets = {"foreignKey", "update"}
        /\ updateError = NoError
        /\ foreignKeyError = NoError
        /\ columnsError = NoError
        /\ error = NoError

\* Clear was clicked after a failed submission.
C6_Witness ==
    /\ lastEvent.op = "resetError"
    /\ pc = "done"
    /\ calls[Len(calls)].result = "failed"

ErrorSources == {"columns", "update", "foreignKey"}

\* C6 (as claimed): Clear resets all three error sources, the error of the
\* table query included, and the merged error is empty right after it.
C6_ClearResetsAllSources ==
    lastEvent.op = "resetError" =>
        (lastEvent.resets = ErrorSources /\ error = NoError)

\* C7: both flags start false; after an even number of clicks on a secret's
\* button its text is the mask again (after an odd number, the secret); a
\* click on one button leaves the other flag and the requests unchanged.
C7_SecretToggles ==
    /\ [](/\ adminToggles = 0 => ~showAdminSecret
          /\ webhookToggles = 0 => ~showWebhookSecret
          /\ SettingsRendered =>
                /\ adminToggles % 2 = 0 => adminSecretText = Mask
                /\ adminToggles % 2 = 1 =>
                      adminSecretText =
                          secrets.currentApplication.hasuraGraphqlAdminSecret
                /\ webhookToggles % 2 = 0 => webhookSecretText = Mask
                /\ webhookToggles % 2 = 1 =>
                      webhookSecretText = secrets.data.app.webhookSecret)
    /\ [][adminToggles' # adminToggles =>
            (showWebhookSecret' = showWebhookSecret /\ requests' = requests)]_vars
    /\ [][webhookToggles' # webhookToggles =>
            (showAdminSecret' = showAdminSecret /\ requests' = requests)]_vars

\* The admin secret was revealed and masked again while the webhook secret,
\* revealed once, stays revealed.
C7_Witness ==
    /\ adminToggles = 2
    /\ adminSecretText = Mask
    /\ webhookToggles = 1
    /\ webhookSecretText = secrets.data.app.webhookSecret

\* The place of a collaborator's call in the order of handleSubmit.
StepRank(op) ==
    CASE op = "updateTable" -> 1
      [] op = "trackForeignKeyRelations" -> 2
      [] op = "onSubmit" -> 3
      [] op = "push" -> 4
      [] op = "triggerToast" -> 5

\* C8: the calls of handleSubmit come in the order updateTable, tracking,
\* onSubmit, push, toast; a call is made only after every earlier call has
\* succeeded, so a failed call is the last one and the toast follows successes
\* only; calls already made stay made; handleSubmit itself always resolves.
C8_SequentialSubmit ==
    /\ [](/\ \A i, j \in DOMAIN calls :
                i < j => (/\ StepRank(calls[i].op) < StepRank(calls[j].op)
                          /\ calls[i].result = "ok")
          /\ Submitted => calls[1].op = "updateTable"
          /\ outcome \in {"none", "pending", "resolved"}
          /\ pc = "done" <=> outcome = "resolved"
          /\ (Submitted /\ calls[Len(calls)].result = "failed") => pc = "done"
          /\ (pc = "done" /\ calls[Len(calls)].result = "ok")
                => calls[Len(calls)].op = "triggerToast")
    /\ [][(Submitted /\ pc # "done") =>
            /\ Len(calls') >= Len(calls)
            /\ \A i \in DOMAIN calls :
                  /\ calls'[i].op = calls[i].op
                  /\ calls'[i].arg = calls[i].arg
                  /\ calls[i].result = "ok" => calls'[i].result = "ok"]_vars

\* All five steps ran, in order, in one submission.
C8_Witness ==
    /\ pc = "done"
    /\ Len(calls) = 5
    /\ calls[5].op = "triggerToast"

\* The name of the submitted column at a submitted index, if there is one.
SubmittedName(index) ==
    IF index.tag = "num" /\ index.val >= 0 /\ index.val < Len(values.columns)
    THEN values.columns[index.val + 1].name
    ELSE NoName
KeysResolved(sent) ==
    /\ sent.primaryKey = SubmittedName(values.primaryKeyIndex)
    /\ sent.identityColumn =
          IF values.identityColumnIndex.tag \in {"null", "undefined"}
          THEN NoName
          ELSE SubmittedName(values.identityColumnIndex)

\* C9 (as amended): the updatedTable passed to updateTable carries primaryKey,
\* the name of the submitted column at primaryKeyIndex (absent without such a
\* column), and identityColumn, the name of the submitted column at
\* identityColumnIndex (absent when that index is null or undefined); the two
\* indices are passed along with it, copied from the submitted values.
C9_KeysResolvedIndicesKept ==
    Submitted =>
        /\ calls[1].op = "updateTable"
        /\ KeysResolved(calls[1].arg.updatedTable)
        /\ calls[1].arg.updatedTable.primaryKeyIndex = values.primaryKeyIndex
        /\ calls[1].arg.updatedTable.identityColumnIndex =
              values.identityColumnIndex

\* The primary key column was renamed in the form before the submission.
C9_Witness ==
    /\ Submitted
    /\ values.primaryKeyIndex = Num(0)
    /\ values.columns[1].name # values.columns[1].id
    /\ calls[1].arg.updatedTable.primaryKey = EditedColumnName

\* C9 (as claimed): the keys are resolved to names and the indices are not
\* part of the updatedTable passed to updateTable.
C9_KeysResolvedIndicesNotSent ==
    Submitted =>
        /\ KeysResolved(calls[1].arg.updatedTable)
        /\ DOMAIN calls[1].arg.updatedTable
              \cap {"primaryKeyIndex", "identityColumnIndex"} = {}

\* C10: a successful load without columns leaves the form values and the
\* latch as they are while the form is rendered; the first successful load
\* with a column that finds the latch unset replaces the form values,
\* whatever they are, by the loaded ones and sets the latch.
C10_HydrationNeedsColumns ==
    /\ [](~formInitialized /\ nEdits = 0 => form = defaultValues)
    /\ [][(SuccessfulLoadStep /\ Len(data'.columns) = 0) =>
            /\ form' = form
            /\ formInitialized' = formInitialized
            /\ FormRendered']_vars
    /\ [][(SuccessfulLoadStep /\ Len(data'.columns) > 0 /\ ~formInitialized) =>
            /\ formInitialized'
            /\ ~dirty'
            /\ form'.name = originalTableName
            /\ Len(form'.columns) = Len(data'.columns)
            /\ \A i \in DOMAIN form'.columns :
                  /\ form'.columns[i].id = data'.columns[i].column_name
                  /\ form'.columns[i].name = data'.columns[i].column_name
            /\ form'.foreignKeyRelations = data'.foreignKeyRelations]_vars

\* The user edited the un-hydrated form shown after a load without columns,
\* and a later load hydrated the form over that edit.
C10_Witness ==
    /\ lastEvent.op = "LoadSuccess"
    /\ formInitialized
    /\ ~dirty
    /\ nEdits > 0
    /\ form = HydratedValues(dataGridColumns, foreignKeyRelations)

====
